---- MODULE Spec2Model ----
(***************************************************************************)
(* A model of the node in src/main.rs: start_ldk (recovery of the channel  *)
(* monitors from their snapshots and update records, construction of the   *)
(* channel manager, chain synchronisation, start of the long-running       *)
(* tasks) and handle_ldk_events (the event handler run by the background   *)
(* processor, one event at a time).                                        *)
(***************************************************************************)
EXTENDS Integers, Sequences, FiniteSets, TLC

\* ---------------------------------------------------------------- bounds
MaxUpdateId == 2
MaxChannels == 2
MaxRecords == 2
MaxEvents == 2
MaxHeight == 1

\* ------------------------------------------------------- persisted inputs
Range(s) == {s[i] : i \in 1..Len(s)}

DistinctSeqs(S, n) ==
  UNION {{s \in [1..k -> S] : \A i, j \in 1..k : i # j => s[i] # s[j]} : k \in 0..n}

Txids == {"t1", "t2"}
Payloads == {"ok", "bad"}
None == "None"

Indexes == {0, 1}
SnapshotIds == {0, 1}

\* Two channels funded by one transaction and one funded by another.
OutPoint == {o \in [txid : Txids, index : Indexes] : o.txid = "t1" \/ o.index = 0}

\* A full ChannelMonitor as written by the snapshot persister.
Snapshot == [outpoint : OutPoint, latest_update_id : SnapshotIds]

\* A persisted ChannelMonitorUpdate; txid and index are the funding output
\* it was persisted for, update_id its sequence number.
UpdateRecord ==
  {r \in [txid : Txids, index : Indexes, update_id : 1..MaxUpdateId,
          payload : Payloads] :
     [txid |-> r.txid, index |-> r.index] \in OutPoint}

\* What the monitors directory can hold: one snapshot per funding output.
MonitorDirs ==
  {s \in DistinctSeqs(Snapshot, MaxChannels) :
     \A i, j \in 1..Len(s) : i # j => s[i].outpoint # s[j].outpoint}

\* What the update store can hold, in storage order.
UpdateDirs == DistinctSeqs(UpdateRecord, MaxRecords)

VARIABLES
  pc,                     \* position of start_ldk
  exit_at,                \* step at which start_ldk returned or panicked
  disk_monitors,          \* snapshots found on disk, in directory order
  disk_updates,           \* update records found on disk, in storage order
  channelmonitors,        \* Vec of loaded ChannelMonitors
  channelmonitorupdates,  \* HashMap<Txid, Vec<ChannelMonitorUpdate>>
  ci,                     \* index of the monitor the replay loop is at
  sorted_channel_updates, \* the sorted clone being applied
  ri,                     \* records of sorted_channel_updates already applied
  restarting_node,
  channel_manager,        \* "None", "read" (from the manager file) or "fresh"
  chain_listener_channel_monitors,
  chain_tip,              \* "None", "synchronized" or "validated"
  synced,                 \* listeners taken through synchronize_listeners
  watched,                \* monitors given to chain_monitor.watch_channel
  tasks,                  \* long-running tasks spawned so far
  height,                 \* height of the backend's best block
  best_block,             \* height of the channel manager's best block
  poll_from               \* height of the block the chain poller starts from

VARIABLES
  dpc,                \* position of the event handler
  event,              \* the event being handled, or the last one handled
  nevents,            \* events taken so far
  calls,              \* calls made so far for that event, in order
  inbound_payments,   \* PaymentInfoStorage: payment hash -> PaymentInfo
  outbound_payments,
  pending_payments,
  db,                 \* rows of the attempt table, in insertion order
  forward_tasks,      \* tasks spawned for PendingHTLCsForwardable
  forwards_released,  \* calls of process_pending_htlc_forwards
  held,               \* mutexes whose guard the event handler holds
  poisoned            \* mutexes a panic has poisoned

chain_vars == <<height, best_block, poll_from>>

startup_vars ==
  <<pc, exit_at, disk_monitors, disk_updates, channelmonitors,
    channelmonitorupdates, ci, sorted_channel_updates, ri, restarting_node,
    channel_manager, chain_listener_channel_monitors, chain_tip, synced,
    watched, tasks, chain_vars>>

lock_vars == <<held, poisoned>>

dispatcher_vars ==
  <<dpc, event, nevents, calls, inbound_payments, outbound_payments,
    pending_payments, db, forward_tasks, forwards_released, lock_vars>>

vars == <<startup_vars, dispatcher_vars>>

\* ------------------------------------------------------------ start_ldk

\* read_channelmonitors: one ChannelMonitor per snapshot, in directory order.
ReadMonitor(snap) ==
  [outpoint |-> snap.outpoint,
   latest_update_id |-> snap.latest_update_id,
   applied |-> <<>>]

\* read_channelmonitor_updates: the records grouped under the funding txid,
\* each group in storage order.
GroupByTxid(updates) ==
  [t \in {r.txid : r \in Range(updates)} |->
     SelectSeq(updates, LAMBDA r : r.txid = t)]

\* channelmonitorupdates.get(&channel_output.txid)
GetChannelUpdates(updates_map, monitor) ==
  IF monitor.outpoint.txid \in DOMAIN updates_map
    THEN [some |-> TRUE, channel_updates |-> updates_map[monitor.outpoint.txid]]
    ELSE [some |-> FALSE, channel_updates |-> <<>>]

\* sort_by(|a, b| a.update_id.cmp(&b.update_id)): a stable sort.
RECURSIVE InsertByUpdateId(_, _)
InsertByUpdateId(s, r) ==
  IF s = <<>> THEN <<r>>
  ELSE IF s[Len(s)].update_id <= r.update_id THEN Append(s, r)
  ELSE Append(InsertByUpdateId(SubSeq(s, 1, Len(s) - 1), r), s[Len(s)])

RECURSIVE SortPrefix(_, _)
SortPrefix(s, n) ==
  IF n = 0 THEN <<>> ELSE InsertByUpdateId(SortPrefix(s, n - 1), s[n])

SortByUpdateId(s) == SortPrefix(s, Len(s))

\* ChannelMonitor::update_monitor: the update is taken only as the successor
\* of the monitor's latest update and only if it is well formed.
UpdateMonitorOk(monitor, update) ==
  /\ update.update_id = monitor.latest_update_id + 1
  /\ update.payload = "ok"

UpdateMonitor(monitor, update) ==
  [monitor EXCEPT !.latest_update_id = update.update_id,
                  !.applied = Append(@, update)]

\* Mutant of OnUpdateResult: a refused update is skipped.
OnUpdateResult_Skip(ok) == "continue"

\* The match on update_monitor's result: Ok(_) => continue, Err(e) => return.
OnUpdateResult(ok) == IF ok THEN "continue" ELSE "return"

Stop(at) ==
  /\ pc' = "stopped"
  /\ exit_at' = at

\* ----------------------------------------------------- handle_ldk_events

Hashes == {"h1", "h2"}
Preimages == {"p1", "p2"}
Secrets == {"s1"}
Amounts == {1000, 2000}
ChannelIds == {"c1", "c2"}
ChannelValues == {100000}
Addresses == {"bcrt1qa", "bcrt1qb"}
FeeRates == {253, 2000}

\* Option<u64> and Option<u16>: <<>> is None, <<x>> is Some(x).
NoneInt == <<>>
SomeInt(x) == <<x>>

\* RouteHop: the node's public key and the channel leading to it.
Route ==
  <<[pubkey |-> "02aa", short_channel_id |-> 7],
    [pubkey |-> "03bb", short_channel_id |-> 12],
    [pubkey |-> "02cc", short_channel_id |-> 305]>>

\* The paths of failed attempts: the stretches of Route.
Paths ==
  {SubSeq(Route, i, j) : i \in 1..Len(Route), j \in 1..Len(Route)} \ {<<>>}

\* 0x400f, 0x100c, 0xc005, 0x400a, and 0x2002 as a code not in the table.
ErrorCodes == {16399, 4108, 49157, 16394, 8194}

PaymentPurpose ==
  [kind : {"InvoicePayment"}, payment_preimage : {None, "p1"},
   payment_secret : Secrets]
  \cup [kind : {"SpontaneousPayment"}, preimage : {"p2"}]

NoEvent == [type |-> "None"]

FundingGenerationReady ==
  [type : {"FundingGenerationReady"}, temporary_channel_id : ChannelIds,
   channel_value_satoshis : ChannelValues]

PaymentReceived ==
  [type : {"PaymentReceived"}, payment_hash : Hashes,
   purpose : PaymentPurpose, amt : Amounts]

PaymentSent ==
  [type : {"PaymentSent"}, payment_preimage : Preimages, payment_hash : Hashes]

PaymentPathFailed ==
  [type : {"PaymentPathFailed"}, path : Paths,
   error_code : {NoneInt} \cup {SomeInt(c) : c \in ErrorCodes}]

PaymentFailed == [type : {"PaymentFailed"}, payment_hash : Hashes]

PendingHTLCsForwardable ==
  [type : {"PendingHTLCsForwardable"}, time_forwardable : {0, 1}]

SpendableOutputs == [type : {"SpendableOutputs"}, outputs : {<<"o1", "o2">>}]

\* The arms of the match that only print, or do nothing.
PrintOnly ==
  [type : {"OpenChannelRequest", "PaymentPathSuccessful", "PaymentForwarded",
           "ChannelClosed", "DiscardFunding"}]

\* u64::to_string: the decimal digits.
Digit(d) ==
  CASE d = 0 -> "0" [] d = 1 -> "1" [] d = 2 -> "2" [] d = 3 -> "3"
    [] d = 4 -> "4" [] d = 5 -> "5" [] d = 6 -> "6" [] d = 7 -> "7"
    [] d = 8 -> "8" [] d = 9 -> "9"

RECURSIVE U64ToString(_)
U64ToString(n) ==
  IF n < 10 THEN Digit(n) ELSE U64ToString(n \div 10) \o Digit(n % 10)

\* The match on purpose: (payment_preimage, payment_secret).
ResolvePurpose(purpose) ==
  IF purpose.kind = "InvoicePayment"
    THEN [payment_preimage |-> purpose.payment_preimage,
          payment_secret |-> purpose.payment_secret]
    ELSE [payment_preimage |-> purpose.preimage, payment_secret |-> None]

\* The match on claim_funds' result.
ClaimStatus(claimed) == IF claimed THEN "Succeeded" ELSE "Failed"

\* Mutant of UpsertPayment: an occupied entry keeps its secret.
UpsertPayment_KeepSecret(payments, hash, preimage, secret, status, amt) ==
  IF hash \in DOMAIN payments
    THEN [payments EXCEPT ![hash].status = status,
                          ![hash].preimage = preimage]
    ELSE [h \in DOMAIN payments \cup {hash} |->
            IF h = hash
              THEN [preimage |-> preimage, secret |-> secret,
                    status |-> status, amt_msat |-> SomeInt(amt)]
              ELSE payments[h]]

\* payments.entry(*payment_hash): an occupied entry gets status, preimage
\* and secret; a vacant one gets a new PaymentInfo with the amount.
UpsertPayment(payments, hash, preimage, secret, status, amt) ==
  IF hash \in DOMAIN payments
    THEN [payments EXCEPT ![hash].status = status,
                          ![hash].preimage = preimage,
                          ![hash].secret = secret]
    ELSE [h \in DOMAIN payments \cup {hash} |->
            IF h = hash
              THEN [preimage |-> preimage, secret |-> secret,
                    status |-> status, amt_msat |-> SomeInt(amt)]
              ELSE payments[h]]

\* Mutant of MarkSent: the loop does not compare the hashes.
MarkSent_EveryRecord(payments, payment_hash, payment_preimage) ==
  [hash \in DOMAIN payments |->
     [payments[hash] EXCEPT !.preimage = payment_preimage,
                            !.status = "Succeeded"]]

\* The loop over outbound_payments of the PaymentSent arm.
MarkSent(payments, payment_hash, payment_preimage) ==
  [hash \in DOMAIN payments |->
     IF hash = payment_hash
       THEN [payments[hash] EXCEPT !.preimage = payment_preimage,
                                   !.status = "Succeeded"]
       ELSE payments[hash]]

\* Mutant of ClassifyErrorCode: the arm of 0x400a is missing.
ClassifyErrorCode_NoNextPeer(error_code) ==
  CASE error_code = 16399 -> "incorrect_or_unknown_payment_details"
    [] error_code = 4108 -> "fee_insufficient"
    [] error_code = 49157 -> "invalid_onion_hmac"
    [] OTHER -> "unknown"

\* The match on error_code.
ClassifyErrorCode(error_code) ==
  CASE error_code = 16399 -> "incorrect_or_unknown_payment_details"
    [] error_code = 4108 -> "fee_insufficient"
    [] error_code = 49157 -> "invalid_onion_hmac"
    [] error_code = 16394 -> "unknown_next_peer"
    [] OTHER -> "unknown"

\* Mutant of PathFailedAttempts: the target is the first hop of the path.
PathFailedAttempts_FirstHop(path, error_code) ==
  LET last_hop == path[Len(path)]
      rest == SubSeq(path, 1, Len(path) - 1)
  IN  IF Len(rest) < 1 THEN <<>>
      ELSE IF error_code = NoneInt THEN <<>>
      ELSE <<[target_pubkey |-> rest[1].pubkey,
              guess_pubkey |-> last_hop.pubkey,
              channel_id |-> U64ToString(last_hop.short_channel_id),
              result |-> CASE error_code[1] = 16399 ->
                                "incorrect_or_unknown_payment_details"
                           [] error_code[1] = 4108 -> "fee_insufficient"
                           [] error_code[1] = 49157 -> "invalid_onion_hmac"
                           [] error_code[1] = 16394 -> "unknown_next_peer"
                           [] OTHER -> "unknown"]>>

\* The rows the PaymentPathFailed arm inserts: path.split_last(), the
\* return on an empty rest, the row only for Some(error_code).
PathFailedAttempts(path, error_code) ==
  LET last_hop == path[Len(path)]
      rest == SubSeq(path, 1, Len(path) - 1)
  IN  IF Len(rest) < 1 THEN <<>>
      ELSE IF error_code = NoneInt THEN <<>>
      ELSE <<[target_pubkey |-> rest[Len(rest)].pubkey,
              guess_pubkey |-> last_hop.pubkey,
              channel_id |-> U64ToString(last_hop.short_channel_id),
              result |-> ClassifyErrorCode(error_code[1])]>>

\* Mutant of RemovePending: the map is cleared when the hash is found.
RemovePending_Clear(payments, payment_hash) ==
  IF payment_hash \in DOMAIN payments THEN <<>> ELSE payments

\* Mutant of RemovePending: the entry is looked up and left in the map.
RemovePending_Keep(payments, payment_hash) == payments

\* The PaymentFailed arm: contains_key, then remove.
RemovePending(payments, payment_hash) ==
  IF payment_hash \in DOMAIN payments
    THEN [h \in DOMAIN payments \ {payment_hash} |-> payments[h]]
    ELSE payments

\* Step 15: the three payment maps start empty; the attempt table exists.
DispatcherInit ==
  /\ dpc = "idle"
  /\ event = NoEvent
  /\ nevents = 0
  /\ calls = <<>>
  /\ inbound_payments = <<>>
  /\ outbound_payments = <<>>
  /\ pending_payments = <<>>
  /\ db = <<>>
  /\ forward_tasks = <<>>
  /\ forwards_released = 0
  /\ held = {}
  /\ poisoned = {}

Init ==
  /\ pc = "start"
  /\ exit_at = None
  /\ disk_monitors = <<>>
  /\ disk_updates = <<>>
  /\ channelmonitors = <<>>
  /\ channelmonitorupdates = <<>>
  /\ ci = 0
  /\ sorted_channel_updates = <<>>
  /\ ri = 0
  /\ restarting_node = TRUE
  /\ channel_manager = None
  /\ chain_listener_channel_monitors = <<>>
  /\ chain_tip = None
  /\ synced = [channel_manager |-> FALSE, monitors |-> {}]
  /\ watched = {}
  /\ tasks = {}
  /\ height = 0
  /\ best_block = NoneInt
  /\ poll_from = NoneInt
  /\ DispatcherInit

\* Startup arguments, bitcoind connection, network check, keys seed.
Setup ==
  /\ UNCHANGED dispatcher_vars
  /\ UNCHANGED chain_vars
  /\ pc = "start"
  /\ \E ok \in BOOLEAN :
       IF ok THEN pc' = "read_monitors" /\ UNCHANGED exit_at
             ELSE Stop("setup")
  /\ UNCHANGED <<disk_monitors, disk_updates, channelmonitors,
                 channelmonitorupdates, ci, sorted_channel_updates, ri,
                 restarting_node, channel_manager,
                 chain_listener_channel_monitors, chain_tip, synced, watched,
                 tasks>>

\* Step 7: real_persister.read_channelmonitors(..).unwrap(); dir is what
\* the monitors directory holds, or None when reading it fails.
ReadChannelMonitors ==
  /\ UNCHANGED dispatcher_vars
  /\ UNCHANGED chain_vars
  /\ pc = "read_monitors"
  /\ \/ \E dir \in MonitorDirs :
          /\ disk_monitors' = dir
          /\ channelmonitors' = [i \in 1..Len(dir) |-> ReadMonitor(dir[i])]
          /\ pc' = "read_updates"
          /\ UNCHANGED exit_at
     \/ /\ Stop("read_monitors")
        /\ UNCHANGED <<disk_monitors, channelmonitors>>
  /\ UNCHANGED <<disk_updates,
                 channelmonitorupdates, ci, sorted_channel_updates, ri,
                 restarting_node, channel_manager,
                 chain_listener_channel_monitors, chain_tip, synced, watched,
                 tasks>>

\* persister.read_channelmonitor_updates().unwrap(); dir is what the update
\* store holds.
ReadChannelMonitorUpdates ==
  /\ UNCHANGED dispatcher_vars
  /\ UNCHANGED chain_vars
  /\ pc = "read_updates"
  /\ \/ \E dir \in UpdateDirs :
          /\ disk_updates' = dir
          /\ channelmonitorupdates' = GroupByTxid(dir)
          /\ pc' = "replay"
          /\ UNCHANGED exit_at
     \/ /\ Stop("read_updates")
        /\ UNCHANGED <<disk_updates, channelmonitorupdates>>
  /\ UNCHANGED <<disk_monitors, channelmonitors,
                 ci, sorted_channel_updates, ri, restarting_node,
                 channel_manager, chain_listener_channel_monitors, chain_tip,
                 synced, watched, tasks>>

\* The head of the loop over channelmonitors: look the updates of the next
\* monitor up and sort a clone of them.
ReplayNextChannel ==
  /\ UNCHANGED dispatcher_vars
  /\ UNCHANGED chain_vars
  /\ pc = "replay"
  /\ ci < Len(channelmonitors)
  /\ ci' = ci + 1
  /\ LET channel_updates_res ==
           GetChannelUpdates(channelmonitorupdates, channelmonitors[ci + 1])
     IN  IF channel_updates_res.some
           THEN /\ sorted_channel_updates' =
                     SortByUpdateId(channel_updates_res.channel_updates)
                /\ ri' = 0
                /\ pc' = "apply"
           ELSE UNCHANGED <<pc, sorted_channel_updates, ri>>
  /\ UNCHANGED <<exit_at, disk_monitors, disk_updates,
                 channelmonitors, channelmonitorupdates, restarting_node,
                 channel_manager, chain_listener_channel_monitors, chain_tip,
                 synced, watched, tasks>>

\* One pass of the loop over sorted_channel_updates.
ReplayApplyUpdate ==
  /\ UNCHANGED dispatcher_vars
  /\ UNCHANGED chain_vars
  /\ pc = "apply"
  /\ ri < Len(sorted_channel_updates)
  /\ LET update == sorted_channel_updates[ri + 1]
         ok == UpdateMonitorOk(channelmonitors[ci], update)
     IN  /\ channelmonitors' =
              IF ok
                THEN [channelmonitors EXCEPT
                        ![ci] = UpdateMonitor(channelmonitors[ci], update)]
                ELSE channelmonitors
         /\ ri' = ri + 1
         /\ IF OnUpdateResult(ok) = "continue"
              THEN /\ pc' = IF ri + 1 = Len(sorted_channel_updates)
                              THEN "replay" ELSE "apply"
                   /\ UNCHANGED exit_at
              ELSE Stop("replay")
  /\ UNCHANGED <<disk_monitors, disk_updates,
                 channelmonitorupdates, ci, sorted_channel_updates,
                 restarting_node, channel_manager,
                 chain_listener_channel_monitors, chain_tip, synced, watched,
                 tasks>>

\* Step 8: the channel manager is read from the manager file, or built
\* fresh from the backend's chain info when there is no such file.
InitChannelManager ==
  /\ UNCHANGED dispatcher_vars
  /\ pc = "replay"
  /\ ci = Len(channelmonitors)
  /\ \/ \E manager_file \in BOOLEAN :
          /\ channel_manager' = IF manager_file THEN "read" ELSE "fresh"
          /\ restarting_node' = manager_file
          /\ best_block' = SomeInt(IF manager_file THEN 0 ELSE height)
          /\ pc' = "sync"
          /\ UNCHANGED exit_at
     \/ /\ Stop("manager")
        /\ UNCHANGED <<channel_manager, restarting_node, best_block>>
  /\ UNCHANGED <<height, poll_from>>
  /\ UNCHANGED <<disk_monitors, disk_updates, channelmonitors,
                 channelmonitorupdates, ci, sorted_channel_updates, ri,
                 chain_listener_channel_monitors, chain_tip, synced, watched,
                 tasks>>

\* Step 9 on a restart: the monitors are drained into the listener list and
\* synchronized, with the channel manager, to the chain tip.
SyncListeners ==
  /\ UNCHANGED dispatcher_vars
  /\ pc = "sync"
  /\ restarting_node
  /\ chain_listener_channel_monitors' = channelmonitors
  /\ channelmonitors' = <<>>
  /\ \E ok \in BOOLEAN :
       IF ok
         THEN /\ synced' =
                   [channel_manager |-> TRUE,
                    monitors |-> {m.outpoint : m \in Range(channelmonitors)}]
              /\ chain_tip' = "synchronized"
              /\ best_block' = SomeInt(height)
              /\ poll_from' = SomeInt(height)
              /\ pc' = "watch"
              /\ UNCHANGED exit_at
         ELSE /\ Stop("sync")
              /\ UNCHANGED <<synced, chain_tip, best_block, poll_from>>
  /\ UNCHANGED height
  /\ UNCHANGED <<disk_monitors, disk_updates,
                 channelmonitorupdates, ci, sorted_channel_updates, ri,
                 restarting_node, channel_manager, watched, tasks>>

\* Mutant of SkipSync: the synchronization is skipped on a restart too.
SkipSync_Always ==
  /\ UNCHANGED dispatcher_vars
  /\ UNCHANGED chain_vars
  /\ pc = "sync"
  /\ pc' = "watch"
  /\ UNCHANGED <<exit_at, disk_monitors, disk_updates,
                 channelmonitors, channelmonitorupdates, ci,
                 sorted_channel_updates, ri, restarting_node, channel_manager,
                 chain_listener_channel_monitors, chain_tip, synced, watched,
                 tasks>>

\* Step 9 on a fresh node: nothing is drained or synchronized.
SkipSync ==
  /\ UNCHANGED dispatcher_vars
  /\ UNCHANGED chain_vars
  /\ pc = "sync"
  /\ ~restarting_node
  /\ pc' = "watch"
  /\ UNCHANGED <<exit_at, disk_monitors, disk_updates,
                 channelmonitors, channelmonitorupdates, ci,
                 sorted_channel_updates, ri, restarting_node, channel_manager,
                 chain_listener_channel_monitors, chain_tip, synced, watched,
                 tasks>>

\* Step 10: watch_channel(..).unwrap() for each drained monitor; k is the
\* number of monitors taken before a call fails.
WatchChannels ==
  /\ UNCHANGED dispatcher_vars
  /\ UNCHANGED chain_vars
  /\ pc = "watch"
  /\ \E k \in 0..Len(chain_listener_channel_monitors) :
       /\ watched' = {chain_listener_channel_monitors[i] : i \in 1..k}
       /\ IF k = Len(chain_listener_channel_monitors)
            THEN pc' = "networking" /\ UNCHANGED exit_at
            ELSE Stop("watch")
  /\ chain_listener_channel_monitors' = <<>>
  /\ UNCHANGED <<disk_monitors, disk_updates, channelmonitors,
                 channelmonitorupdates, ci, sorted_channel_updates, ri,
                 restarting_node, channel_manager, chain_tip, synced, tasks>>

\* Steps 11 to 13: network graph and its persistence timer, peer manager,
\* the task accepting inbound connections.
InitNetworking ==
  /\ UNCHANGED dispatcher_vars
  /\ UNCHANGED chain_vars
  /\ pc = "networking"
  /\ tasks' = tasks \cup {"graph_persister", "acceptor"}
  /\ pc' = "poller"
  /\ UNCHANGED <<exit_at, disk_monitors, disk_updates,
                 channelmonitors, channelmonitorupdates, ci,
                 sorted_channel_updates, ri, restarting_node, channel_manager,
                 chain_listener_channel_monitors, chain_tip, synced, watched>>

\* Step 14: the best block header is validated when no synchronization set
\* chain_tip, then the chain poller is spawned.
StartChainPoller ==
  /\ UNCHANGED dispatcher_vars
  /\ pc = "poller"
  /\ \E ok \in BOOLEAN :
       IF ok \/ chain_tip # None
         THEN /\ chain_tip' = IF chain_tip = None THEN "validated" ELSE chain_tip
              /\ poll_from' = IF chain_tip = None THEN SomeInt(height)
                                                 ELSE poll_from
              /\ tasks' = tasks \cup {"poller"}
              /\ pc' = "db"
              /\ UNCHANGED exit_at
         ELSE /\ Stop("poller")
              /\ UNCHANGED <<chain_tip, tasks, poll_from>>
  /\ UNCHANGED <<height, best_block>>
  /\ UNCHANGED <<disk_monitors, disk_updates, channelmonitors,
                 channelmonitorupdates, ci, sorted_channel_updates, ri,
                 restarting_node, channel_manager,
                 chain_listener_channel_monitors, synced, watched>>

\* The attempt table is opened and created.
CreateDb ==
  /\ UNCHANGED dispatcher_vars
  /\ UNCHANGED chain_vars
  /\ pc = "db"
  /\ \E ok \in BOOLEAN :
       IF ok THEN pc' = "events" /\ UNCHANGED exit_at
             ELSE Stop("db")
  /\ UNCHANGED <<disk_monitors, disk_updates, channelmonitors,
                 channelmonitorupdates, ci, sorted_channel_updates, ri,
                 restarting_node, channel_manager,
                 chain_listener_channel_monitors, chain_tip, synced, watched,
                 tasks>>

\* Steps 15 to 19: event handler, scorer, invoice payer and the background
\* processor, which from now on hands events to handle_ldk_events.
StartBackgroundProcessor ==
  /\ UNCHANGED dispatcher_vars
  /\ UNCHANGED chain_vars
  /\ pc = "events"
  /\ tasks' = tasks \cup {"scorer_persister", "dispatcher"}
  /\ pc' = "timers"
  /\ UNCHANGED <<exit_at, disk_monitors, disk_updates,
                 channelmonitors, channelmonitorupdates, ci,
                 sorted_channel_updates, ri, restarting_node, channel_manager,
                 chain_listener_channel_monitors, chain_tip, synced, watched>>

\* The peer reconnection timer is spawned and the command line is polled.
StartCli ==
  /\ UNCHANGED dispatcher_vars
  /\ UNCHANGED chain_vars
  /\ pc = "timers"
  /\ tasks' = tasks \cup {"reconnect"}
  /\ pc' = "live"
  /\ UNCHANGED <<exit_at, disk_monitors, disk_updates,
                 channelmonitors, channelmonitorupdates, ci,
                 sorted_channel_updates, ri, restarting_node, channel_manager,
                 chain_listener_channel_monitors, chain_tip, synced, watched>>

\* The chain grows by a block while start_ldk runs. Only the blocks found
\* between the construction of the channel manager and the start of the
\* chain poller bear on where the poller starts.
NewBlock ==
  /\ UNCHANGED dispatcher_vars
  /\ pc \in {"sync", "watch", "networking", "poller"}
  /\ height < MaxHeight
  /\ height' = height + 1
  /\ UNCHANGED <<pc, exit_at, disk_monitors, disk_updates, channelmonitors,
                 channelmonitorupdates, ci, sorted_channel_updates, ri,
                 restarting_node, channel_manager,
                 chain_listener_channel_monitors, chain_tip, synced, watched,
                 tasks, best_block, poll_from>>

Next ==
  \/ NewBlock
  \/ Setup
  \/ ReadChannelMonitors
  \/ ReadChannelMonitorUpdates
  \/ ReplayNextChannel
  \/ ReplayApplyUpdate
  \/ InitChannelManager
  \/ SyncListeners
  \/ SkipSync
  \/ WatchChannels
  \/ InitNetworking
  \/ StartChainPoller
  \/ CreateDb
  \/ StartBackgroundProcessor
  \/ StartCli

Spec == Init /\ [][Next]_vars

\* ------------------------------------------------- the event handler's arms

\* Mutant of CanTake: the handler is not waited for.
CanTake_NoBlockOn ==
  /\ "dispatcher" \in tasks
  /\ nevents < MaxEvents

\* The background processor hands the next event over only when the
\* handling of the previous one has returned.
CanTake ==
  /\ "dispatcher" \in tasks
  /\ dpc = "idle"
  /\ nevents < MaxEvents

Take(e) ==
  /\ event' = e
  /\ nevents' = nevents + 1

\* FundingGenerationReady, up to the return of create_raw_transaction: one
\* output paying the channel value to the address of output_script.
FundingCreateRawTransaction ==
  /\ CanTake
  /\ \E e \in FundingGenerationReady :
       /\ Take(e)
       /\ calls' =
            <<[op |-> "create_raw_transaction",
               outputs |-> <<[satoshis |-> e.channel_value_satoshis]>>]>>
  /\ dpc' = "fund"
  /\ UNCHANGED <<inbound_payments, outbound_payments, pending_payments, db,
                 forward_tasks, forwards_released>>
  /\ UNCHANGED startup_vars
  /\ UNCHANGED lock_vars

\* fund_raw_transaction(raw_tx).await
FundingFundRawTransaction ==
  /\ dpc = "fund"
  /\ calls' = Append(calls, [op |-> "fund_raw_transaction",
                             raw_tx |-> calls[1].outputs])
  /\ dpc' = "sign"
  /\ UNCHANGED <<event, nevents, inbound_payments, outbound_payments,
                 pending_payments, db, forward_tasks, forwards_released>>
  /\ UNCHANGED startup_vars
  /\ UNCHANGED lock_vars

\* Mutant of FundingSignRawTransaction: the signed transaction is broadcast.
FundingSignRawTransaction_Broadcast ==
  /\ dpc = "sign"
  /\ calls' = calls \o <<[op |-> "sign_raw_transaction_with_wallet",
                          funded_tx |-> calls[1].outputs, complete |-> TRUE],
                         [op |-> "broadcast_transaction",
                          spends |-> calls[1].outputs]>>
  /\ dpc' = "hand_back"
  /\ UNCHANGED <<event, nevents, inbound_payments, outbound_payments,
                 pending_payments, db, forward_tasks, forwards_released>>
  /\ UNCHANGED startup_vars
  /\ UNCHANGED lock_vars

\* Mutant of FundingSignRawTransaction: complete is not asserted.
FundingSignRawTransaction_NoAssert ==
  /\ dpc = "sign"
  /\ \E complete \in BOOLEAN :
       calls' = Append(calls, [op |-> "sign_raw_transaction_with_wallet",
                               funded_tx |-> calls[1].outputs,
                               complete |-> complete])
  /\ dpc' = "hand_back"
  /\ UNCHANGED <<event, nevents, inbound_payments, outbound_payments,
                 pending_payments, db, forward_tasks, forwards_released>>
  /\ UNCHANGED startup_vars
  /\ UNCHANGED lock_vars

\* sign_raw_transaction_with_wallet(funded_tx.hex).await and
\* assert_eq!(signed_tx.complete, true)
FundingSignRawTransaction ==
  /\ dpc = "sign"
  /\ \E complete \in BOOLEAN :
       /\ calls' = Append(calls, [op |-> "sign_raw_transaction_with_wallet",
                                  funded_tx |-> calls[1].outputs,
                                  complete |-> complete])
       /\ dpc' = IF complete THEN "hand_back" ELSE "panicked"
  /\ UNCHANGED <<event, nevents, inbound_payments, outbound_payments,
                 pending_payments, db, forward_tasks, forwards_released>>
  /\ UNCHANGED startup_vars
  /\ UNCHANGED lock_vars

\* Mutant of FundingTransactionGenerated: the result is unwrapped.
FundingTransactionGenerated_Unwrap ==
  /\ dpc = "hand_back"
  /\ \E is_err \in BOOLEAN :
       /\ calls' = Append(calls, [op |-> "funding_transaction_generated",
                                  temporary_channel_id |-> event.temporary_channel_id,
                                  final_tx |-> calls[1].outputs,
                                  is_err |-> is_err])
       /\ dpc' = IF is_err THEN "panicked" ELSE "idle"
  /\ UNCHANGED <<event, nevents, inbound_payments, outbound_payments,
                 pending_payments, db, forward_tasks, forwards_released>>
  /\ UNCHANGED startup_vars
  /\ UNCHANGED lock_vars

\* funding_transaction_generated(&temporary_channel_id, final_tx); an Err is
\* printed and nothing else.
FundingTransactionGenerated ==
  /\ dpc = "hand_back"
  /\ \E is_err \in BOOLEAN :
       calls' = Append(calls, [op |-> "funding_transaction_generated",
                               temporary_channel_id |-> event.temporary_channel_id,
                               final_tx |-> calls[1].outputs,
                               is_err |-> is_err])
  /\ dpc' = "idle"
  /\ UNCHANGED <<event, nevents, inbound_payments, outbound_payments,
                 pending_payments, db, forward_tasks, forwards_released>>
  /\ UNCHANGED startup_vars
  /\ UNCHANGED lock_vars

\* PaymentReceived, up to the call of claim_funds: the guard of
\* inbound_payments is taken and the purpose is matched.
PaymentReceivedLock ==
  /\ CanTake
  /\ \E e \in PaymentReceived : Take(e)
  /\ calls' = <<>>
  /\ IF "inbound_payments" \in poisoned
       THEN dpc' = "panicked" /\ UNCHANGED held
       ELSE dpc' = "claim" /\ held' = held \cup {"inbound_payments"}
  /\ UNCHANGED <<inbound_payments, outbound_payments, pending_payments, db,
                 forward_tasks, forwards_released, poisoned>>
  /\ UNCHANGED startup_vars

\* Mutant of HandlePaymentReceived: the guard outlives the handler.
HandlePaymentReceived_KeepGuard ==
  /\ dpc = "claim"
  /\ \E claimed \in BOOLEAN :
       LET r == ResolvePurpose(event.purpose)
       IN  IF r.payment_preimage = None
             THEN /\ dpc' = "panicked"
                  /\ held' = held \ {"inbound_payments"}
                  /\ poisoned' = poisoned \cup {"inbound_payments"}
                  /\ UNCHANGED <<calls, inbound_payments>>
             ELSE /\ dpc' = "idle"
                  /\ calls' = <<[op |-> "claim_funds",
                                 payment_preimage |-> r.payment_preimage,
                                 claimed |-> claimed]>>
                  /\ inbound_payments' =
                       UpsertPayment(inbound_payments, event.payment_hash,
                                     r.payment_preimage, r.payment_secret,
                                     ClaimStatus(claimed), event.amt)
                  /\ UNCHANGED <<held, poisoned>>
  /\ UNCHANGED <<event, nevents, outbound_payments, pending_payments, db,
                 forward_tasks, forwards_released>>
  /\ UNCHANGED startup_vars

\* The rest of the PaymentReceived arm: payment_preimage.unwrap() panics on
\* None, which drops the guard and poisons the mutex; otherwise claimed is
\* claim_funds' result, the entry is written and the guard is dropped.
HandlePaymentReceived ==
  /\ dpc = "claim"
  /\ \E claimed \in BOOLEAN :
       LET r == ResolvePurpose(event.purpose)
       IN  IF r.payment_preimage = None
             THEN /\ dpc' = "panicked"
                  /\ poisoned' = poisoned \cup {"inbound_payments"}
                  /\ UNCHANGED <<calls, inbound_payments>>
             ELSE /\ dpc' = "idle"
                  /\ calls' = <<[op |-> "claim_funds",
                                 payment_preimage |-> r.payment_preimage,
                                 claimed |-> claimed]>>
                  /\ inbound_payments' =
                       UpsertPayment(inbound_payments, event.payment_hash,
                                     r.payment_preimage, r.payment_secret,
                                     ClaimStatus(claimed), event.amt)
                  /\ UNCHANGED poisoned
  /\ held' = held \ {"inbound_payments"}
  /\ UNCHANGED <<event, nevents, outbound_payments, pending_payments, db,
                 forward_tasks, forwards_released>>
  /\ UNCHANGED startup_vars

HandlePaymentSent ==
  /\ CanTake
  /\ \E e \in PaymentSent :
       /\ Take(e)
       /\ outbound_payments' =
            MarkSent(outbound_payments, e.payment_hash, e.payment_preimage)
  /\ calls' = <<>>
  /\ UNCHANGED <<dpc, inbound_payments, pending_payments, db, forward_tasks,
                 forwards_released>>
  /\ UNCHANGED startup_vars
  /\ UNCHANGED lock_vars

\* Mutant of HandlePrintOnly: the pending payments are forgotten.
HandlePrintOnly_ForgetPending ==
  /\ CanTake
  /\ \E e \in PrintOnly : Take(e)
  /\ calls' = <<>>
  /\ pending_payments' = <<>>
  /\ UNCHANGED <<dpc, inbound_payments, outbound_payments,
                 db, forward_tasks, forwards_released>>
  /\ UNCHANGED startup_vars
  /\ UNCHANGED lock_vars

\* OpenChannelRequest, PaymentPathSuccessful, PaymentForwarded,
\* ChannelClosed, DiscardFunding.
HandlePrintOnly ==
  /\ CanTake
  /\ \E e \in PrintOnly : Take(e)
  /\ calls' = <<>>
  /\ UNCHANGED <<dpc, inbound_payments, outbound_payments, pending_payments,
                 db, forward_tasks, forwards_released>>
  /\ UNCHANGED startup_vars
  /\ UNCHANGED lock_vars

HandlePaymentPathFailed ==
  /\ CanTake
  /\ \E e \in PaymentPathFailed :
       /\ Take(e)
       /\ db' = db \o PathFailedAttempts(e.path, e.error_code)
  /\ calls' = <<>>
  /\ UNCHANGED <<dpc, inbound_payments, outbound_payments, pending_payments,
                 forward_tasks, forwards_released>>
  /\ UNCHANGED startup_vars
  /\ UNCHANGED lock_vars

\* Mutant of HandlePaymentFailed: the outbound record of the hash is set
\* to Failed as well.
HandlePaymentFailed_MarkOutbound ==
  /\ CanTake
  /\ \E e \in PaymentFailed :
       /\ Take(e)
       /\ pending_payments' = RemovePending(pending_payments, e.payment_hash)
       /\ outbound_payments' =
            IF e.payment_hash \in DOMAIN outbound_payments
              THEN [outbound_payments EXCEPT
                      ![e.payment_hash].status = "Failed"]
              ELSE outbound_payments
  /\ calls' = <<>>
  /\ UNCHANGED <<dpc, inbound_payments, db, forward_tasks,
                 forwards_released>>
  /\ UNCHANGED startup_vars
  /\ UNCHANGED lock_vars

\* The PaymentFailed arm: only the pending map is written.
HandlePaymentFailed ==
  /\ CanTake
  /\ \E e \in PaymentFailed :
       /\ Take(e)
       /\ pending_payments' = RemovePending(pending_payments, e.payment_hash)
  /\ calls' = <<>>
  /\ UNCHANGED <<dpc, inbound_payments, outbound_payments, db, forward_tasks,
                 forwards_released>>
  /\ UNCHANGED startup_vars
  /\ UNCHANGED lock_vars

\* PendingHTLCsForwardable: tokio::spawn of the task that sleeps and then
\* releases the forwards.
HandlePendingHTLCsForwardable ==
  /\ CanTake
  /\ \E e \in PendingHTLCsForwardable :
       /\ Take(e)
       /\ forward_tasks' =
            Append(forward_tasks, [min |-> e.time_forwardable,
                                   stage |-> "spawned",
                                   millis_to_sleep |-> NoneInt])
  /\ calls' = <<>>
  /\ UNCHANGED <<dpc, inbound_payments, outbound_payments, pending_payments,
                 db, forwards_released>>
  /\ UNCHANGED startup_vars
  /\ UNCHANGED lock_vars

\* The spawned task draws gen_range(min, min * 5), which panics on an empty
\* range, and goes to sleep.
ForwardTaskSleep ==
  /\ \E i \in 1..Len(forward_tasks) :
       /\ forward_tasks[i].stage = "spawned"
       /\ LET min == forward_tasks[i].min
          IN  IF min < min * 5
                THEN \E millis_to_sleep \in min..(min * 5 - 1) :
                       forward_tasks' =
                         [forward_tasks EXCEPT
                            ![i].stage = "sleeping",
                            ![i].millis_to_sleep = SomeInt(millis_to_sleep)]
                ELSE forward_tasks' =
                       [forward_tasks EXCEPT ![i].stage = "panicked"]
  /\ UNCHANGED <<dpc, event, nevents, calls, inbound_payments,
                 outbound_payments, pending_payments, db, forwards_released>>
  /\ UNCHANGED startup_vars
  /\ UNCHANGED lock_vars

\* The sleep is over: process_pending_htlc_forwards().
ForwardTaskRelease ==
  /\ \E i \in 1..Len(forward_tasks) :
       /\ forward_tasks[i].stage = "sleeping"
       /\ forward_tasks' = [forward_tasks EXCEPT ![i].stage = "done"]
  /\ forwards_released' = forwards_released + 1
  /\ UNCHANGED <<dpc, event, nevents, calls, inbound_payments,
                 outbound_payments, pending_payments, db>>
  /\ UNCHANGED startup_vars
  /\ UNCHANGED lock_vars

\* SpendableOutputs, up to the return of get_new_address.
SpendGetNewAddress ==
  /\ CanTake
  /\ \E e \in SpendableOutputs : Take(e)
  /\ \E destination_address \in Addresses :
       calls' = <<[op |-> "get_new_address",
                   address |-> destination_address]>>
  /\ dpc' = "spend"
  /\ UNCHANGED <<inbound_payments, outbound_payments, pending_payments, db,
                 forward_tasks, forwards_released>>
  /\ UNCHANGED startup_vars
  /\ UNCHANGED lock_vars

\* The transaction keys_manager.spend_spendable_outputs builds.
SpendingTx(output_descriptors, script_pubkey, tx_feerate) ==
  [spends |-> output_descriptors, pays_to |-> script_pubkey,
   feerate |-> tx_feerate]

\* Mutant of SpendBuildAndBroadcast: only the first output is spent.
SpendBuildAndBroadcast_FirstOutput ==
  /\ dpc = "spend"
  /\ \E tx_feerate \in FeeRates :
       LET spending_tx == SpendingTx(SubSeq(event.outputs, 1, 1),
                                     calls[1].address, tx_feerate)
       IN  calls' = calls \o
             <<[op |-> "get_est_sat_per_1000_weight", feerate |-> tx_feerate],
               [op |-> "spend_spendable_outputs", built |-> TRUE,
                tx |-> spending_tx],
               [op |-> "broadcast_transaction", tx |-> spending_tx]>>
  /\ dpc' = "idle"
  /\ UNCHANGED <<event, nevents, inbound_payments, outbound_payments,
                 pending_payments, db, forward_tasks, forwards_released>>
  /\ UNCHANGED startup_vars
  /\ UNCHANGED lock_vars

\* The fee rate is read, spend_spendable_outputs(..).unwrap() builds the
\* transaction and broadcast_transaction sends it.
SpendBuildAndBroadcast ==
  /\ dpc = "spend"
  /\ \E built \in BOOLEAN, tx_feerate \in FeeRates :
       LET spending_tx == SpendingTx(event.outputs, calls[1].address,
                                     tx_feerate)
           build == <<[op |-> "get_est_sat_per_1000_weight",
                       feerate |-> tx_feerate],
                      [op |-> "spend_spendable_outputs", built |-> built,
                       tx |-> spending_tx]>>
       IN  IF built
             THEN /\ calls' = calls \o build \o
                              <<[op |-> "broadcast_transaction",
                                 tx |-> spending_tx]>>
                  /\ dpc' = "idle"
             ELSE /\ calls' = calls \o build
                  /\ dpc' = "panicked"
  /\ UNCHANGED <<event, nevents, inbound_payments, outbound_payments,
                 pending_payments, db, forward_tasks, forwards_released>>
  /\ UNCHANGED startup_vars
  /\ UNCHANGED lock_vars

\* The command line registers a payment it is about to send.
CliSendPayment ==
  /\ pc = "live"
  /\ \E hash \in Hashes \ DOMAIN outbound_payments :
       outbound_payments' =
         [h \in DOMAIN outbound_payments \cup {hash} |->
            IF h = hash
              THEN [preimage |-> None, secret |-> None, status |-> "Pending",
                    amt_msat |-> SomeInt(1000)]
              ELSE outbound_payments[h]]
  /\ UNCHANGED <<dpc, event, nevents, calls, inbound_payments,
                 pending_payments, db, forward_tasks, forwards_released>>
  /\ UNCHANGED startup_vars
  /\ UNCHANGED lock_vars

\* The command line registers a payment whose outcome is pending.
CliTrackPending ==
  /\ pc = "live"
  /\ \E hash \in Hashes \ DOMAIN pending_payments :
       pending_payments' =
         [h \in DOMAIN pending_payments \cup {hash} |->
            IF h = hash
              THEN [preimage |-> None, secret |-> None, status |-> "Pending",
                    amt_msat |-> NoneInt]
              ELSE pending_payments[h]]
  /\ UNCHANGED <<dpc, event, nevents, calls, inbound_payments,
                 outbound_payments, db, forward_tasks, forwards_released>>
  /\ UNCHANGED startup_vars
  /\ UNCHANGED lock_vars

\* The node after the startup of a fresh node with no persisted channel.
InitDispatch ==
  /\ pc = "live"
  /\ exit_at = None
  /\ disk_monitors = <<>>
  /\ disk_updates = <<>>
  /\ channelmonitors = <<>>
  /\ channelmonitorupdates = <<>>
  /\ ci = 0
  /\ sorted_channel_updates = <<>>
  /\ ri = 0
  /\ restarting_node = FALSE
  /\ channel_manager = "fresh"
  /\ chain_listener_channel_monitors = <<>>
  /\ chain_tip = "validated"
  /\ synced = [channel_manager |-> FALSE, monitors |-> {}]
  /\ watched = {}
  /\ tasks = {"graph_persister", "acceptor", "poller", "scorer_persister",
              "dispatcher", "reconnect"}
  /\ height = 0
  /\ best_block = SomeInt(0)
  /\ poll_from = SomeInt(0)
  /\ DispatcherInit

NextDispatch ==
  \/ FundingCreateRawTransaction
  \/ FundingFundRawTransaction
  \/ FundingSignRawTransaction
  \/ FundingTransactionGenerated
  \/ PaymentReceivedLock
  \/ HandlePaymentReceived
  \/ HandlePaymentSent
  \/ HandlePrintOnly
  \/ HandlePaymentPathFailed
  \/ HandlePaymentFailed
  \/ HandlePendingHTLCsForwardable
  \/ ForwardTaskSleep
  \/ ForwardTaskRelease
  \/ SpendGetNewAddress
  \/ SpendBuildAndBroadcast
  \/ CliSendPayment
  \/ CliTrackPending

SpecDispatch == InitDispatch /\ [][NextDispatch]_vars

\* The runtime runs every spawned task and every sleep ends.
SpecForward ==
  /\ InitDispatch
  /\ [][NextDispatch]_vars
  /\ WF_vars(ForwardTaskSleep)
  /\ WF_vars(ForwardTaskRelease)

\* ---------------------------------------------------------------- claims

\* The update records persisted for the funding output o, in storage order.
OwnUpdates(o) ==
  SelectSeq(disk_updates, LAMBDA r : r.txid = o.txid /\ r.index = o.index)

\* The updates of the set S applied to a monitor in memory, least update_id
\* first, until one is refused.
RECURSIVE ApplyAscending(_, _)
ApplyAscending(monitor, S) ==
  IF S = {} THEN [ok |-> TRUE, monitor |-> monitor]
  ELSE LET r == CHOOSE x \in S : \A y \in S : x.update_id <= y.update_id
       IN  IF UpdateMonitorOk(monitor, r)
             THEN ApplyAscending(UpdateMonitor(monitor, r), S \ {r})
             ELSE [ok |-> FALSE, monitor |-> monitor]

\* The replay loop has gone through every update of monitor i.
ReplayCompleted(i) ==
  \/ i < ci
  \/ i = ci /\ pc # "apply" /\ ~(pc = "stopped" /\ exit_at = "replay")

\* The replay loop returned while at monitor i.
ReplayFailed(i) == i = ci /\ pc = "stopped" /\ exit_at = "replay"

\* C1: for every channel and every storage order of its update records,
\* the replayed monitor equals its snapshot with the channel's own update
\* records applied in ascending update_id order in memory, and the replay
\* fails only where that application fails.
C1_ReplayEqualsAscendingApplication ==
  \A i \in 1..Len(channelmonitors) :
    LET ref == ApplyAscending(ReadMonitor(disk_monitors[i]),
                              Range(OwnUpdates(disk_monitors[i].outpoint)))
    IN  /\ ReplayCompleted(i) => ref.ok /\ channelmonitors[i] = ref.monitor
        /\ ReplayFailed(i) => ~ref.ok

\* The update records of monitor i's own funding output that lie behind a
\* gap: some update_id between the snapshot's and theirs is not persisted.
AfterGap(i) ==
  LET own == Range(OwnUpdates(disk_monitors[i].outpoint))
      base == disk_monitors[i].latest_update_id
  IN  {r \in own : \E m \in (base + 1)..(r.update_id - 1) :
                     \A q \in own : q.update_id # m}

\* start_ldk has left the replay loop without returning from it.
ReplayPassed ==
  \/ pc \in {"sync", "watch", "networking", "poller", "db", "events", "timers",
             "live"}
  \/ pc = "stopped" /\ exit_at \in {"manager", "sync", "watch", "poller", "db"}

\* C2: when the persisted update records of a channel have a gap, startup
\* never gets past the replay, and no record behind the gap is ever applied
\* to the channel's monitor.
C2_GapIsFatal ==
  \A i \in 1..Len(disk_monitors) :
    AfterGap(i) # {} =>
      /\ ~ReplayPassed
      /\ i <= Len(channelmonitors) =>
           \A k \in 1..Len(channelmonitors[i].applied) :
             channelmonitors[i].applied[k] \notin AfterGap(i)

\* Some update handed to the replay of monitor m was not applied to it.
PartiallyReplayed(m) ==
  Len(m.applied) <
    Len(GetChannelUpdates(channelmonitorupdates, m).channel_updates)

\* No ledger, no registered monitor, no acceptor, poller or dispatcher.
NothingLive ==
  /\ channel_manager = None
  /\ chain_listener_channel_monitors = <<>>
  /\ synced.monitors = {}
  /\ watched = {}
  /\ tasks \cap {"acceptor", "poller", "dispatcher"} = {}

\* C3: when loading the persisted state or replaying an update fails,
\* start_ldk stops with no ledger built, no monitor registered and no
\* acceptor, poller or dispatcher started; and once any of these exists, no
\* loaded monitor is partially replayed.
C3_NoPartialStateLive ==
  /\ exit_at \in {"read_monitors", "read_updates", "replay"} => NothingLive
  /\ ~NothingLive =>
       \A m \in Range(channelmonitors) \cup
                Range(chain_listener_channel_monitors) \cup watched :
         ~PartiallyReplayed(m)

\* A replay that stopped after applying one update and refusing the next.
C3_Witness ==
  /\ pc = "stopped"
  /\ exit_at = "replay"
  /\ NothingLive
  /\ \E i \in 1..Len(channelmonitors) :
       /\ Len(channelmonitors[i].applied) > 0
       /\ PartiallyReplayed(channelmonitors[i])

\* This step takes an event of the given type into the handler.
Takes(type) == nevents' = nevents + 1 /\ event'.type = type

\* This step ends the handling of a PaymentReceived event: the claim is
\* made and the entry written, or the handler panics.
Claims == event.type = "PaymentReceived" /\ dpc = "claim" /\ dpc' # "claim"

\* C4: the step handling a PaymentReceived event with a spontaneous
\* preimage leaves, under the event's hash, an inbound record with no
\* secret whose status is Succeeded if claim_funds succeeded and Failed
\* otherwise, whether the hash had a record before or not.
C4_SpontaneousUpsert ==
  [][(Claims /\ event'.purpose.kind = "SpontaneousPayment")
       => /\ dpc' = "idle"
          /\ event'.payment_hash \in DOMAIN inbound_payments'
          /\ inbound_payments'[event'.payment_hash].secret = None
          /\ inbound_payments'[event'.payment_hash].status =
               (IF calls'[1].claimed THEN "Succeeded" ELSE "Failed")]_vars

\* A spontaneous payment whose claim failed, on a hash that already had a
\* record (its amount is not the event's).
C4_Witness ==
  /\ event.type = "PaymentReceived"
  /\ dpc = "idle"
  /\ event.purpose.kind = "SpontaneousPayment"
  /\ ~calls[1].claimed
  /\ inbound_payments[event.payment_hash].secret = None
  /\ inbound_payments[event.payment_hash].status = "Failed"
  /\ inbound_payments[event.payment_hash].amt_msat # SomeInt(event.amt)

\* The row of the claim for a failed path: blame on the last hop, the hop
\* before it as the target.
IsBlameRow(row, path) ==
  /\ row.guess_pubkey = path[Len(path)].pubkey
  /\ row.channel_id = U64ToString(path[Len(path)].short_channel_id)
  /\ row.target_pubkey = path[Len(path) - 1].pubkey

\* C5 as stated: a PaymentPathFailed event with a path of one hop appends
\* no row, one with a path of two or more hops appends exactly one row,
\* which blames the last hop and targets the hop before it.
C5_Original ==
  [][Takes("PaymentPathFailed")
       => IF Len(event'.path) = 1
            THEN db' = db
            ELSE /\ Len(db') = Len(db) + 1
                 /\ SubSeq(db', 1, Len(db)) = db
                 /\ IsBlameRow(db'[Len(db')], event'.path)]_vars

\* C5 as amended: a PaymentPathFailed event with a path of one hop, or
\* with no error code, appends no row; one with a path of two or more hops
\* and an error code appends exactly one row, which blames the last hop and
\* targets the hop before it.
C5_PathFailedRows ==
  [][Takes("PaymentPathFailed")
       => IF Len(event'.path) = 1 \/ event'.error_code = NoneInt
            THEN db' = db
            ELSE /\ Len(db') = Len(db) + 1
                 /\ SubSeq(db', 1, Len(db)) = db
                 /\ IsBlameRow(db'[Len(db')], event'.path)]_vars

\* A failed path of three hops with an error code, and its row.
C5_Witness ==
  /\ event.type = "PaymentPathFailed"
  /\ Len(event.path) = 3
  /\ event.error_code # NoneInt
  /\ db # <<>>
  /\ IsBlameRow(db[Len(db)], event.path)
  /\ db[Len(db)].target_pubkey # event.path[1].pubkey

\* C6: the result of the row written for a failed path is the fixed
\* classification of the event's error code.
C6_Classification ==
  [][(Takes("PaymentPathFailed") /\ Len(db') = Len(db) + 1)
       => LET code == event'.error_code[1]
              result == db'[Len(db')].result
          IN  /\ code = 16399 => result = "incorrect_or_unknown_payment_details"
              /\ code = 4108 => result = "fee_insufficient"
              /\ code = 49157 => result = "invalid_onion_hmac"
              /\ code = 16394 => result = "unknown_next_peer"
              /\ code \notin {16399, 4108, 49157, 16394} => result = "unknown"]_vars

\* A row written for the code 0x400a.
C6_Witness ==
  /\ event.type = "PaymentPathFailed"
  /\ event.error_code = SomeInt(16394)
  /\ db # <<>>
  /\ db[Len(db)].result = "unknown_next_peer"

C8_PaymentFailedIdempotent ==
  [][Takes("PaymentFailed")
       => /\ dpc' = "idle"
          /\ event'.payment_hash \notin DOMAIN pending_payments'
          /\ event'.payment_hash \notin DOMAIN pending_payments
               => pending_payments' = pending_payments]_vars

\* A second event handled, a PaymentFailed, with the hash gone from a
\* pending map that holds the other hash.
C8_Witness ==
  /\ event.type = "PaymentFailed"
  /\ nevents = 2
  /\ dpc = "idle"
  /\ DOMAIN pending_payments = Hashes \ {event.payment_hash}

\* C9: after the step handling a PaymentReceived event whose claim
\* succeeded, the inbound record of the hash is Succeeded and its amount is
\* the event's, whether the record was inserted or updated.
C9_ObservedAmount ==
  [][(Claims /\ dpc' = "idle" /\ calls'[1].claimed)
       => /\ inbound_payments'[event'.payment_hash].status = "Succeeded"
          /\ inbound_payments'[event'.payment_hash].amt_msat =
               SomeInt(event'.amt)]_vars

\* C10: the step handling PaymentSent adds no key to the outbound map,
\* sets the record of the event's hash, if there is one, to Succeeded with
\* the event's preimage, and leaves every other record as it was.
C10_PaymentSentFrame ==
  [][Takes("PaymentSent")
       => /\ DOMAIN outbound_payments' = DOMAIN outbound_payments
          /\ \A h \in DOMAIN outbound_payments :
               IF h = event'.payment_hash
                 THEN /\ outbound_payments'[h].status = "Succeeded"
                      /\ outbound_payments'[h].preimage =
                           event'.payment_preimage
                 ELSE outbound_payments'[h] = outbound_payments[h]]_vars

\* A payment sent for one of two registered hashes; the other is pending.
C10_Witness ==
  /\ event.type = "PaymentSent"
  /\ DOMAIN outbound_payments = Hashes
  /\ outbound_payments[event.payment_hash].status = "Succeeded"
  /\ outbound_payments[event.payment_hash].preimage = event.payment_preimage
  /\ \E h \in Hashes \ {event.payment_hash} :
       outbound_payments[h].status = "Pending"

\* The calls the handler itself makes for the event it holds have all
\* returned.
HandlerCallsComplete ==
  /\ event.type = "FundingGenerationReady" =>
       /\ Len(calls) = 4
       /\ calls[Len(calls)].op = "funding_transaction_generated"
  /\ event.type = "SpendableOutputs" =>
       /\ Len(calls) = 4
       /\ calls[Len(calls)].op = "broadcast_transaction"
  /\ event.type = "PaymentReceived" =>
       /\ Len(calls) = 1
       /\ calls[1].op = "claim_funds"

\* C11 as stated: an event is taken only when the handling of the one
\* before it has returned and every side effect of the earlier events,
\* the release of forwards included, has completed.
C11_Original ==
  [][nevents' # nevents
       => /\ nevents' = nevents + 1
          /\ dpc = "idle"
          /\ HandlerCallsComplete
          /\ \A i \in 1..Len(forward_tasks) :
               forward_tasks[i].stage = "done"]_vars

\* C11 as amended: an event is taken only when the handling of the one
\* before it has returned with all the calls the handler makes itself
\* completed; the release of forwards runs in a task of its own and is not
\* waited for.
C11_OneAtATime ==
  [][nevents' # nevents
       => /\ nevents' = nevents + 1
          /\ dpc = "idle"
          /\ HandlerCallsComplete]_vars

\* A funding event handled to its end as the second event while the task
\* spawned for the first, a PendingHTLCsForwardable, still sleeps.
C11_Witness ==
  /\ nevents = 2
  /\ event.type = "FundingGenerationReady"
  /\ dpc = "idle"
  /\ Len(calls) = 4
  /\ Len(forward_tasks) = 1
  /\ forward_tasks[1].stage = "sleeping"

\* Protocol activity: a monitor is with the watcher, the acceptor or the
\* chain poller runs, or events are dispatched.
ProtocolActivity ==
  \/ watched # {}
  \/ pc \in {"networking", "poller", "db", "events", "timers", "live"}
  \/ tasks \cap {"acceptor", "poller", "dispatcher"} # {}
  \/ nevents > 0

\* C12: on a restart (the channel manager was read from its file) there is
\* no protocol activity before the channel manager and every loaded monitor
\* have been taken through the synchronization to the chain tip; on a
\* fresh node nothing is synchronized and the chain poller starts from the
\* validated current tip.
C12_SyncBeforeActivity ==
  /\ (channel_manager = "read" /\ (ProtocolActivity \/ tasks # {})) =>
       /\ synced.channel_manager
       /\ synced.monitors = {s.outpoint : s \in Range(disk_monitors)}
       /\ chain_tip = "synchronized"
  /\ channel_manager = "fresh" =>
       /\ ~synced.channel_manager
       /\ synced.monitors = {}
       /\ chain_tip \in {None, "validated"}
       /\ "poller" \in tasks => chain_tip = "validated"

\* A restarted node gone live with two synchronized, watched monitors.
C12_Witness ==
  /\ pc = "live"
  /\ channel_manager = "read"
  /\ synced.channel_manager
  /\ Cardinality(synced.monitors) = 2
  /\ Cardinality(watched) = 2
  /\ chain_tip = "synchronized"

\* C13: when the node processes live events, every monitor loaded at
\* startup is with the watcher, whether the channel manager was read from
\* its file or built fresh.
C13_AllMonitorsWatched ==
  "dispatcher" \in tasks =>
    {m.outpoint : m \in watched} = {s.outpoint : s \in Range(disk_monitors)}

\* The task spawned for the i-th PendingHTLCsForwardable event has chosen a
\* delay within [min, 5 * min).
DelayChosen(i) ==
  /\ i <= Len(forward_tasks)
  /\ forward_tasks[i].stage \in {"sleeping", "done"}
  /\ forward_tasks[i].millis_to_sleep # NoneInt
  /\ forward_tasks[i].min <= forward_tasks[i].millis_to_sleep[1]
  /\ forward_tasks[i].millis_to_sleep[1] < 5 * forward_tasks[i].min

\* C14: for every PendingHTLCsForwardable event, one of delay 0 included,
\* a delay within [min, 5 * min) is chosen and the forwards are eventually
\* released, once for each event.
C14_ForwardsReleased ==
  /\ [](forwards_released =
          Cardinality({i \in 1..Len(forward_tasks) :
                         forward_tasks[i].stage = "done"}))
  /\ \A i \in 1..MaxEvents :
       (Len(forward_tasks) >= i) ~>
         (DelayChosen(i) /\ forward_tasks[i].stage = "done")

\* C15: while a SpendableOutputs event is handled the calls made are a
\* beginning of new address, fee rate, build, broadcast; when its handling
\* has returned they are these four, the transaction built spends all the
\* outputs of the event to the address fetched at the fee rate read, and
\* the one broadcast is of that transaction.
C15_SpendSequence ==
  event.type = "SpendableOutputs" =>
    LET expected == <<"get_new_address", "get_est_sat_per_1000_weight",
                      "spend_spendable_outputs", "broadcast_transaction">>
    IN  /\ Len(calls) <= Len(expected)
        /\ \A k \in 1..Len(calls) : calls[k].op = expected[k]
        /\ dpc = "idle" =>
             /\ Len(calls) = Len(expected)
             /\ calls[3].tx.spends = event.outputs
             /\ calls[3].tx.pays_to = calls[1].address
             /\ calls[3].tx.feerate = calls[2].feerate
             /\ calls[4].tx = calls[3].tx

\* The handling of a SpendableOutputs event has returned.
C15_Witness ==
  /\ event.type = "SpendableOutputs"
  /\ dpc = "idle"
  /\ Len(calls) = 4
  /\ calls[4].op = "broadcast_transaction"
  /\ Len(calls[4].tx.spends) = 2
  /\ calls[4].tx.pays_to = "bcrt1qb"

\* C16: the steps handling a FundingGenerationReady event leave the three
\* payment maps and the attempt table as they are, and when the engine
\* rejects the transaction handed back the handler returns, so that the
\* next event can be taken.
C16_RejectionOnlyLogged ==
  [][(event'.type = "FundingGenerationReady" /\ calls' # calls)
       => /\ inbound_payments' = inbound_payments
          /\ outbound_payments' = outbound_payments
          /\ pending_payments' = pending_payments
          /\ db' = db
          /\ (Len(calls') = 4 /\ calls'[4].is_err) => dpc' = "idle"]_vars

\* The engine has rejected the funding transaction of the first event, the
\* maps hold what the command line put there and an event can be taken.
C16_Witness ==
  /\ event.type = "FundingGenerationReady"
  /\ Len(calls) = 4
  /\ calls[4].is_err
  /\ outbound_payments # <<>>
  /\ CanTake

\* C17: no update record that is not newer than the snapshot of a monitor
\* is applied to it, and the replay never stops at such a record.
C17_StaleUpdatesSkipped ==
  \A i \in 1..Len(channelmonitors) :
    LET base == disk_monitors[i].latest_update_id
    IN  /\ \A k \in 1..Len(channelmonitors[i].applied) :
             channelmonitors[i].applied[k].update_id > base
        /\ ReplayFailed(i) => sorted_channel_updates[ri].update_id > base

\* The PaymentReceived event whose handling this step ends carries no
\* preimage, or its claim of funds fails.
PaymentAnomaly ==
  /\ Claims
  /\ \/ /\ event.purpose.kind = "InvoicePayment"
        /\ event.purpose.payment_preimage = None
     \/ /\ calls' # <<>>
        /\ ~calls'[1].claimed

\* C18: when the claim of a PaymentReceived event fails or its purpose has
\* no preimage, the handler returns, the mutex of the inbound map is not
\* poisoned, the record of the hash is Failed, and the other inbound
\* records, the outbound map and the pending map are as before.
C18_AnomalyOnlyFails ==
  [][PaymentAnomaly
       => /\ dpc' = "idle"
          /\ "inbound_payments" \notin poisoned'
          /\ DOMAIN inbound_payments' =
               DOMAIN inbound_payments \cup {event.payment_hash}
          /\ inbound_payments'[event.payment_hash].status = "Failed"
          /\ \A h \in DOMAIN inbound_payments \ {event.payment_hash} :
               inbound_payments'[h] = inbound_payments[h]
          /\ outbound_payments' = outbound_payments
          /\ pending_payments' = pending_payments]_vars

\* The backend has returned an incomplete signature set for the funding
\* transaction of the event being handled.
IncompleteSignature ==
  /\ event.type = "FundingGenerationReady"
  /\ Len(calls) >= 3
  /\ ~calls[3].complete

\* C19: when the backend returns an incomplete signature set, the handler
\* stops at the signing step and stays stopped, and no call of
\* funding_transaction_generated is ever made for that transaction.
C19_IncompleteNeverHandedBack ==
  /\ [](IncompleteSignature =>
          /\ dpc = "panicked"
          /\ \A k \in 1..Len(calls) :
               calls[k].op # "funding_transaction_generated")
  /\ [][IncompleteSignature =>
          (dpc' = dpc /\ calls' = calls /\ event' = event)]_vars

\* The signing step has failed on an incomplete signature set.
C19_Witness ==
  /\ IncompleteSignature
  /\ dpc = "panicked"
  /\ calls[Len(calls)].op = "sign_raw_transaction_with_wallet"

\* The calls into the on-chain backend.
BackendOps ==
  {"create_raw_transaction", "fund_raw_transaction",
   "sign_raw_transaction_with_wallet", "get_new_address",
   "broadcast_transaction"}

\* C20: the handler holds no guard of a payment map or of the attempt
\* table when a call into the on-chain backend starts or returns, none
\* when the handling of an event has ended, and none when an event is taken:
\* a guard is held only within the handling of one event.
C20_NoLockAcrossBackendCalls ==
  /\ [](dpc \in {"idle", "fund", "sign", "hand_back", "spend", "panicked"}
          => held = {})
  /\ [][(calls' # calls /\ \E k \in 1..Len(calls') :
                             calls'[k].op \in BackendOps)
          => (held = {} /\ held' = {})]_vars
  /\ [][nevents' # nevents => held = {}]_vars

\* The backend signs a funding transaction, with no guard held, after an
\* earlier PaymentReceived event took and dropped the guard of the inbound
\* map.
C20_Witness ==
  /\ dpc = "sign"
  /\ held = {}
  /\ nevents = 2
  /\ inbound_payments # <<>>

\* C21: no step removes a key from the inbound map or from the outbound
\* map, and a key leaves the pending map only in the step that handles a
\* PaymentFailed event for that hash.
C21_KeysOnlyLeavePending ==
  [][/\ DOMAIN inbound_payments \subseteq DOMAIN inbound_payments'
     /\ DOMAIN outbound_payments \subseteq DOMAIN outbound_payments'
     /\ \A h \in DOMAIN pending_payments \ DOMAIN pending_payments' :
          Takes("PaymentFailed") /\ event'.payment_hash = h]_vars

\* A PaymentFailed event has taken its hash out of the pending map; the
\* other hash is still pending and the inbound and outbound maps hold
\* records.
C21_Witness ==
  /\ event.type = "PaymentFailed"
  /\ DOMAIN pending_payments = Hashes \ {event.payment_hash}
  /\ inbound_payments # <<>>
  /\ outbound_payments # <<>>

\* C22: the step handling a PaymentForwarded, ChannelClosed,
\* OpenChannelRequest or DiscardFunding event leaves the three payment maps
\* and the attempt table as they are, makes no call into the backend or the
\* engine, spawns nothing and returns.
C22_TelemetryOnly ==
  [][(nevents' # nevents /\
      event'.type \in {"PaymentForwarded", "ChannelClosed",
                       "OpenChannelRequest", "DiscardFunding"})
       => /\ inbound_payments' = inbound_payments
          /\ outbound_payments' = outbound_payments
          /\ pending_payments' = pending_payments
          /\ db' = db
          /\ calls' = <<>>
          /\ forward_tasks' = forward_tasks
          /\ forwards_released' = forwards_released
          /\ dpc' = "idle"]_vars

\* A ChannelClosed event handled as the second event, after a failed path
\* left a row, with payments registered by the command line.
C22_Witness ==
  /\ event.type = "ChannelClosed"
  /\ nevents = 2
  /\ dpc = "idle"
  /\ calls = <<>>
  /\ db # <<>>
  /\ pending_payments # <<>>
  /\ outbound_payments # <<>>

\* C23: every update record applied to a monitor in the replay was
\* persisted for the monitor's own funding output, transaction id and
\* output index.
C23_OwnUpdatesOnly ==
  \A i \in 1..Len(channelmonitors) :
    \A k \in 1..Len(channelmonitors[i].applied) :
      /\ channelmonitors[i].applied[k].txid = channelmonitors[i].outpoint.txid
      /\ channelmonitors[i].applied[k].index =
           channelmonitors[i].outpoint.index

\* The blocks after the channel manager's best block that lie at or before
\* the block the chain poller starts from: the poller never connects them.
SkippedBlocks ==
  IF best_block = NoneInt \/ poll_from = NoneInt THEN {}
  ELSE {b \in 0..MaxHeight : best_block[1] < b /\ b <= poll_from[1]}

\* C24: on a fresh node the chain poller starts from the block recorded as
\* the channel manager's best block, so that no block after it is skipped,
\* whatever blocks are found in between.
C24_PollerStartsAtBestBlock ==
  (channel_manager = "fresh" /\ "poller" \in tasks) =>
    /\ poll_from = best_block
    /\ SkippedBlocks = {}

\* This step is one of the event handler, not of the command line or of a
\* spawned task.
DispatcherStep == nevents' # nevents \/ dpc' # dpc

\* C25: the step handling a PaymentFailed event leaves the inbound map,
\* the outbound map and the attempt table as they are; and no step of the
\* event handler sets an outbound record to Failed or adds a key to the
\* outbound map or to the pending map.
C25_PaymentFailedOnlyPending ==
  [][/\ Takes("PaymentFailed") =>
          /\ inbound_payments' = inbound_payments
          /\ outbound_payments' = outbound_payments
          /\ db' = db
          /\ calls' = <<>>
     /\ DispatcherStep =>
          /\ DOMAIN outbound_payments' \subseteq DOMAIN outbound_payments
          /\ DOMAIN pending_payments' \subseteq DOMAIN pending_payments
          /\ \A h \in DOMAIN outbound_payments' :
               outbound_payments'[h].status = "Failed" =>
                 outbound_payments[h].status = "Failed"]_vars

\* A PaymentFailed event has been handled for a hash whose outbound record
\* is still Pending.
C25_Witness ==
  /\ event.type = "PaymentFailed"
  /\ event.payment_hash \in DOMAIN outbound_payments
  /\ outbound_payments[event.payment_hash].status = "Pending"
  /\ event.payment_hash \notin DOMAIN pending_payments
  /\ pending_payments # <<>>

====
